---- MODULE Spec2Model ----
(***************************************************************************)
(* Model of dashboard_essalud.py: the data.txt parser (load_data), the     *)
(* Streamlit cache in front of it, the three sidebar filters, and the      *)
(* derived views main() computes from the filtered frame on every script   *)
(* run (metrics, kanban groups, value_counts aggregations).                *)
(*                                                                         *)
(* A Python str is a sequence of one-character strings; a DataFrame is the *)
(* sequence of its rows; a dict is a function over its keys.               *)
(***************************************************************************)
EXTENDS Integers, Sequences, FiniteSets

VARIABLES
    file,               \* data.txt on disk: [readable, lines]
    cache,              \* st.cache_data entry of load_data: [hit, df, error]
    lines,              \* what load_data's last real execution read (readlines)
    selected_priority,  \* sidebar selectbox "Línea Prioritaria"
    selected_status,    \* sidebar selectbox "Estado del Protocolo"
    selected_network,   \* sidebar selectbox "Red Prestacional"
    outcome,            \* how the last script run of main() ended
    error_shown,        \* load_data's st.error element is on the page
    df,                 \* main's df: the base record set of the last run
    filtered_df,        \* main's filtered_df
    metrics,            \* what create_metrics displayed
    status_groups,      \* create_kanban_board: status -> projects
    kanban_columns,     \* create_kanban_board: status -> colour
    priority_counts,    \* create_priority_chart: value_counts
    status_counts,      \* create_status_chart: value_counts
    network_counts,     \* create_network_chart: value_counts
    manager_counts      \* create_managers_chart: value_counts of valid managers

vars == <<file, cache, lines, selected_priority, selected_status,
          selected_network, outcome, error_shown, df, filtered_df, metrics,
          status_groups, kanban_columns, priority_counts, status_counts,
          network_counts, manager_counts>>

-----------------------------------------------------------------------------
(* Bounds of the model and constants of the program *)

\* most lines after the header lines in a data.txt of the parser specification
MaxDataLines == 3

\* most data rows of a data.txt of the dashboard specification
MaxRows == 2

\* lines[2:] : the header lines load_data skips
HeaderLines == 2

\* len(parts) >= 9
MinFields == 9

-----------------------------------------------------------------------------
(* Python str operations *)

Whitespace == {" ", "\t", "\n", "\r"}

UpperChars == <<"A","B","C","D","E","F","G","H","I","J","K","L","M","N","O","P","Q","R","S","T","U","V","W","X","Y","Z","Á","É","Í","Ó","Ú","Ñ">>

LowerChars == <<"a","b","c","d","e","f","g","h","i","j","k","l","m","n","o","p","q","r","s","t","u","v","w","x","y","z","á","é","í","ó","ú","ñ">>

\* the lower-case letter of each upper-case letter
LowerOf ==
    [c \in {UpperChars[i] : i \in 1..Len(UpperChars)} |->
        LowerChars[CHOOSE i \in 1..Len(UpperChars) : UpperChars[i] = c]]

\* str.lower() on one character
LowerChar(c) == IF c \in DOMAIN LowerOf THEN LowerOf[c] ELSE c

\* str.lower()
Lower(s) == [i \in 1..Len(s) |-> LowerChar(s[i])]

\* str.strip(): leading and trailing whitespace removed
Strip(s) ==
    LET n == Len(s)
    IN  IF \A i \in 1..n : s[i] \in Whitespace THEN <<>>
        ELSE LET lo == CHOOSE i \in 1..n :
                           s[i] \notin Whitespace
                           /\ \A j \in 1..(i - 1) : s[j] \in Whitespace
                 cut == CHOOSE d \in 0..(n - 1) :
                           s[n - d] \notin Whitespace
                           /\ \A e \in 0..(d - 1) : s[n - e] \in Whitespace
             IN  SubSeq(s, lo, n - cut)

\* sub occurs in s starting at position i
OccursAt(s, sub, i) ==
    /\ i >= 1
    /\ i + Len(sub) - 1 <= Len(s)
    /\ \A k \in 1..Len(sub) : s[i + k - 1] = sub[k]

\* sub in s
Contains(s, sub) == \E i \in 1..(Len(s) + 1) : OccursAt(s, sub, i)

\* s.startswith(prefix)
StartsWith(s, prefix) == OccursAt(s, prefix, 1)

\* re.search of the literal pattern pat, re.IGNORECASE, in a string whose
\* lower-case form is ls
SearchCI(ls, pat) == LET lp == Lower(pat) IN Contains(ls, lp)

\* re.search of the pattern a.*b, re.IGNORECASE, in a string whose lower-case
\* form is ls (a field holds no newline, so . matches every character)
SearchThenCI(ls, a, b) ==
    LET la == Lower(a)
        lb == Lower(b)
    IN  \E i \in 1..(Len(ls) + 1) :
            /\ OccursAt(ls, la, i)
            /\ \E j \in (i + Len(a))..(Len(ls) + 1) : OccursAt(ls, lb, j)

\* str.split('|')
RECURSIVE Split(_)
Split(s) ==
    LET bars == {i \in 1..Len(s) : s[i] = "|"}
    IN  IF bars = {} THEN <<s>>
        ELSE LET k == CHOOSE i \in bars : \A j \in bars : i <= j
             IN  <<SubSeq(s, 1, k - 1)>> \o Split(SubSeq(s, k + 1, Len(s)))

-----------------------------------------------------------------------------
(* load_data *)

\* parts[k] of the code (0-based) if len(parts) > k else ""
Part(parts, k) == IF Len(parts) > k THEN Strip(parts[k + 1]) ELSE <<>>

\* parts = [part.strip() for part in line.split('|')]
Parts(line) == LET raw == Split(line) IN [k \in 1..Len(raw) |-> Strip(raw[k])]

\* if line.strip() and '|' in line
HasDelimiter(line) == Strip(line) # <<>> /\ Contains(line, <<"|">>)

\* if len(parts) >= 9
EnoughFields(parts) == Len(parts) >= MinFields

\* KeepRow without the dash-rule test
KeepRowNoRuleTest(priority_line, study) == priority_line # <<>> /\ study # <<>>

\* if priority_line and study and not priority_line.startswith('---')
KeepRow(priority_line, study) ==
    /\ priority_line # <<>>
    /\ study # <<>>
    /\ ~StartsWith(priority_line, <<"-","-","-">>)

\* the id taken from the loop counter instead of the list length
NextIdFromCounter(data, i) == i - HeaderLines

\* 'id': len(data) + 1, i being the loop counter of enumerate
NextId(data, i) == Len(data) + 1

\* the dict appended for one row
MakeRecord(parts, id) ==
    [id |-> id,
     priority_line |-> Part(parts, 1),
     manager |-> Part(parts, 2),
     study |-> Part(parts, 4),
     network |-> Part(parts, 3),
     status |-> Part(parts, 5),
     data_support |-> Part(parts, 6),
     principal_investigator |-> Part(parts, 7),
     co_investigators |-> Part(parts, 8),
     national_network |-> Part(parts, 9)]

\* a loop over lines[1:]
FirstDataLineOneEarly == HeaderLines

\* the first line the loop visits: enumerate(lines[2:], start=3)
FirstDataLine == HeaderLines + 1

\* the loop body for line number i (1-based), data being the list so far
RowStep(data, line, i) ==
    IF ~HasDelimiter(line) THEN data
    ELSE LET parts == Parts(line)
         IN  IF ~EnoughFields(parts) THEN data
             ELSE IF KeepRow(Part(parts, 1), Part(parts, 4))
                  THEN Append(data, MakeRecord(parts, NextId(data, i)))
                  ELSE data

\* for i, line in enumerate(lines[2:], start=3)
RECURSIVE ParseFrom(_, _, _)
ParseFrom(ls, i, data) ==
    IF i > Len(ls) THEN data
    ELSE ParseFrom(ls, i + 1, RowStep(data, ls[i], i))

\* an except branch that returns the empty frame without st.error
ReadAndParseNoNotice(f) ==
    IF f.readable
    THEN [df |-> ParseFrom(f.lines, FirstDataLine, <<>>), error |-> FALSE, lines |-> f.lines]
    ELSE [df |-> <<>>, error |-> FALSE, lines |-> <<>>]

\* the body of load_data: [df, error, lines]
ReadAndParse(f) ==
    IF f.readable
    THEN [df |-> ParseFrom(f.lines, FirstDataLine, <<>>), error |-> FALSE, lines |-> f.lines]
    ELSE [df |-> <<>>, error |-> TRUE, lines |-> <<>>]

-----------------------------------------------------------------------------
(* st.cache_data *)

NoCache == [hit |-> FALSE, df |-> <<>>, error |-> FALSE]

\* @st.cache_data: the body runs only when nothing is cached; a cached entry
\* is returned (and its st.error element replayed) without reading the file
CachedLoad(c, f) ==
    IF c.hit THEN [df |-> c.df, error |-> c.error, lines |-> <<>>, ran |-> FALSE]
    ELSE LET r == ReadAndParse(f)
         IN  [df |-> r.df, error |-> r.error, lines |-> r.lines, ran |-> TRUE]

\* st.button("Actualizar") ... st.rerun(): the script runs again; the cache
\* of load_data is not cleared
CacheAfterRefresh(c) == c

-----------------------------------------------------------------------------
(* the sidebar filters *)

Todas == <<"T","o","d","a","s">>

Todos == <<"T","o","d","o","s">>

\* df[column].unique(): the distinct values, in order of first appearance
RECURSIVE Unique(_)
Unique(col) ==
    IF col = <<>> THEN <<>>
    ELSE LET front == Unique(SubSeq(col, 1, Len(col) - 1))
             last == col[Len(col)]
         IN  IF \E i \in 1..Len(front) : front[i] = last THEN front
             ELSE Append(front, last)

Column(frame, name) == [i \in 1..Len(frame) |-> frame[i][name]]

Values(col) == {col[i] : i \in 1..Len(col)}

\* ['Todas'] + sorted(df['priority_line'].unique().tolist()), as a set
PriorityOptions(frame) == {Todas} \cup Values(Column(frame, "priority_line"))

\* ['Todos'] + sorted(df['status'].unique().tolist()), as a set
StatusOptions(frame) == {Todos} \cup Values(Column(frame, "status"))

\* ['Todas'] + sorted(df['network'].unique().tolist()), as a set
NetworkOptions(frame) == {Todas} \cup Values(Column(frame, "network"))

\* frame[frame[name] == value]
WhereEq(frame, name, value) == SelectSeq(frame, LAMBDA r : r[name] = value)

\* the filters without the network selection
ApplyFiltersNoNetwork(base, sp, ss, sn) ==
    LET f1 == IF sp # Todas THEN WhereEq(base, "priority_line", sp) ELSE base
    IN  IF ss # Todos THEN WhereEq(f1, "status", ss) ELSE f1

\* filtered_df = df.copy() and the three conditional selections
ApplyFilters(base, sp, ss, sn) ==
    LET f1 == IF sp # Todas THEN WhereEq(base, "priority_line", sp) ELSE base
        f2 == IF ss # Todos THEN WhereEq(f1, "status", ss) ELSE f1
    IN  IF sn # Todas THEN WhereEq(f2, "network", sn) ELSE f2

-----------------------------------------------------------------------------
(* create_metrics *)

\* str.contains('Ejecucion|Ejecución|Enviado.*Comité|Validacion', case=False)
IsActive(status) ==
    LET ls == Lower(status)
    IN  \/ SearchCI(ls, <<"E","j","e","c","u","c","i","o","n">>)
        \/ SearchCI(ls, <<"E","j","e","c","u","c","i","ó","n">>)
        \/ SearchThenCI(ls, <<"E","n","v","i","a","d","o">>, <<"C","o","m","i","t","é">>)
        \/ SearchCI(ls, <<"V","a","l","i","d","a","c","i","o","n">>)

\* str.contains('Reporte.*Resultado|Completo|completo|IRRI.*completo', case=False)
IsCompleted(status) ==
    LET ls == Lower(status)
    IN  \/ SearchThenCI(ls, <<"R","e","p","o","r","t","e">>, <<"R","e","s","u","l","t","a","d","o">>)
        \/ SearchCI(ls, <<"C","o","m","p","l","e","t","o">>)
        \/ SearchCI(ls, <<"c","o","m","p","l","e","t","o">>)
        \/ SearchThenCI(ls, <<"I","R","R","I">>, <<"c","o","m","p","l","e","t","o">>)

\* f"{k/n*100:.1f}", in tenths of a percent (n > 0)
Percent(k, n) == (2000 * k + n) \div (2 * n)

NoMetrics ==
    [raised |-> FALSE, total |-> 0, active |-> 0, completed |-> 0,
     active_pct |-> 0, completed_pct |-> 0, unique_lines |-> 0]

\* create_metrics(df): active_projects/len(df) raises ZeroDivisionError on
\* an empty frame, after the first metric was displayed
CreateMetrics(view) ==
    LET total == Len(view)
        active == Len(SelectSeq(view, LAMBDA r : IsActive(r.status)))
        completed == Len(SelectSeq(view, LAMBDA r : IsCompleted(r.status)))
    IN  IF total = 0
        THEN [NoMetrics EXCEPT !.raised = TRUE]
        ELSE [raised |-> FALSE, total |-> total, active |-> active,
              completed |-> completed,
              active_pct |-> Percent(active, total),
              completed_pct |-> Percent(completed, total),
              unique_lines |-> Cardinality(Values(Column(view, "priority_line")))]

-----------------------------------------------------------------------------
(* create_kanban_board *)

\* get_status_color: ordered keyword tests on status.lower()
GetStatusColor(status) ==
    LET status_lower == Lower(status)
    IN  IF Contains(status_lower, <<"e","l","a","b","o","r","a","c","i","ó","n">>) \/ Contains(status_lower, <<"e","l","a","b","o","r","a","c","i","o","n">>)
          THEN "#FFE4B5"
        ELSE IF Contains(status_lower, <<"a","p","r","o","b","a","d","o">>) \/ Contains(status_lower, <<"c","o","m","i","t","é">>)
          THEN "#98FB98"
        ELSE IF Contains(status_lower, <<"e","j","e","c","u","c","i","ó","n">>) \/ Contains(status_lower, <<"e","j","e","c","u","c","i","o","n">>)
          THEN "#90EE90"
        ELSE IF Contains(status_lower, <<"c","o","m","p","l","e","t","o">>) \/ Contains(Lower(status_lower), <<"r","r","i">>)
          THEN "#87CEEB"
        ELSE IF Contains(status_lower, <<"a","u","t","o","r","i","z","a","c","i","o","n">>) \/ Contains(status_lower, <<"g","e","r","e","n","c","i","a">>)
          THEN "#FFB6C1"
        ELSE IF Contains(status_lower, <<"v","a","l","i","d","a","c","i","o","n">>)
          THEN "#DDA0DD"
        ELSE IF Contains(status_lower, <<"e","s","p","e","r","a">>) \/ Contains(status_lower, <<"r","e","s","p","u","e","s","t","a">>)
          THEN "#F0E68C"
        ELSE IF Contains(status_lower, <<"m","a","n","u","s","c","r","i","t","o">>)
          THEN "#DDA0DD"
        ELSE "#E6E6FA"

\* grouping by containment of the column's status in the record's status
ProjectsOfContaining(view, status) ==
    SelectSeq(view, LAMBDA r : Contains(r.status, status))

\* projects = df[df['status'] == status]

ProjectsOf(view, status) == WhereEq(view, "status", status)

\* create_kanban_board(df): (status_groups, kanban_columns)
CreateKanbanBoard(view) ==
    LET unique_statuses == Values(Unique(Column(view, "status")))
    IN  [kanban_columns |-> [s \in unique_statuses |-> GetStatusColor(s)],
         status_groups |->
            [s \in {u \in unique_statuses : ProjectsOf(view, u) # <<>>}
                |-> ProjectsOf(view, s)]]

-----------------------------------------------------------------------------
(* value_counts and the charts *)

CountIn(col, v) == Cardinality({i \in 1..Len(col) : col[i] = v})

\* Series.value_counts(): the distinct values are counted in order of first
\* appearance, then sorted by count with sort_values(ascending=False), whose
\* default kind is 'quicksort': not a stable sort, so the order among values
\* of equal count is whatever the numpy build produces.  Every ordering by
\* descending count is a possible result.
ValueCounts(col) ==
    LET u == Unique(col)
        n == Len(u)
        counts == [k \in 1..n |-> CountIn(col, u[k])]
        orders == {p \in [1..n -> 1..n] :
                     /\ \A i, j \in 1..n : i # j => p[i] # p[j]
                     /\ \A i \in 1..(n - 1) : counts[p[i]] >= counts[p[i + 1]]}
    IN  {[i \in 1..n |-> [value |-> u[p[i]], count |-> counts[p[i]]]] :
            p \in orders}

\* the placeholder test without case=False
HasPlaceholderCaseSensitive(manager) == Contains(manager, <<"x","x","x","x","x">>)

\* (~df['manager'].str.contains('xxxxx', case=False, na=False))

HasPlaceholder(manager) == SearchCI(Lower(manager), <<"x","x","x","x","x">>)

\* valid_managers = df[notna & (manager != '') & ~contains('xxxxx')]
ValidManagers(view) ==
    SelectSeq(view, LAMBDA r : r.manager # <<>> /\ ~HasPlaceholder(r.manager))

-----------------------------------------------------------------------------
(* main: one script run *)

\* the page parts a run did not reach
NoViews ==
    /\ status_groups' = <<>>
    /\ kanban_columns' = <<>>
    /\ priority_counts' = <<>>
    /\ status_counts' = <<>>
    /\ network_counts' = <<>>
    /\ manager_counts' = <<>>

\* main() with the sidebar selections sp, ss, sn, the cache being c when the
\* run starts.  Each local of the script is bound once, in program order.
Main(c, sp, ss, sn) ==
    \E loaded \in {CachedLoad(c, file)} :
        /\ cache' = [hit |-> TRUE, df |-> loaded.df, error |-> loaded.error]
        /\ lines' = IF loaded.ran THEN loaded.lines ELSE lines
        /\ error_shown' = loaded.error
        /\ df' = loaded.df
        /\ selected_priority' = sp
        /\ selected_status' = ss
        /\ selected_network' = sn
        /\ UNCHANGED file
        /\ IF loaded.df = <<>>
           THEN \* if df.empty: st.error(...); return
                /\ outcome' = "no_data"
                /\ filtered_df' = <<>>
                /\ metrics' = NoMetrics
                /\ NoViews
           ELSE \E view \in {ApplyFilters(loaded.df, sp, ss, sn)} :
                \E m \in {CreateMetrics(view)} :
                    /\ filtered_df' = view
                    /\ metrics' = m
                    /\ IF m.raised
                       THEN \* the exception ends the script run
                            /\ outcome' = "ZeroDivisionError"
                            /\ NoViews
                       ELSE \E board \in {CreateKanbanBoard(view)} :
                            /\ outcome' = "rendered"
                            /\ status_groups' = board.status_groups
                            /\ kanban_columns' = board.kanban_columns
                            /\ priority_counts' \in ValueCounts(Column(view, "priority_line"))
                            /\ status_counts' \in ValueCounts(Column(view, "status"))
                            /\ network_counts' \in ValueCounts(Column(view, "network"))
                            /\ manager_counts' \in
                                  ValueCounts(Column(ValidManagers(view), "manager"))

\* the sidebar was drawn by the last run (it is drawn after the df.empty return)
SidebarShown == outcome \in {"rendered", "ZeroDivisionError"}

\* a browser session opens the page: the first script run, default selections
Visit ==
    /\ outcome = "not_run"
    /\ Main(cache, Todas, Todos, Todas)

\* the user picks another "Línea Prioritaria": the script runs again
SelectPriority ==
    /\ SidebarShown
    /\ \E v \in PriorityOptions(df) :
          /\ v # selected_priority
          /\ Main(cache, v, selected_status, selected_network)

\* the user picks another "Estado del Protocolo"
SelectStatus ==
    /\ SidebarShown
    /\ \E v \in StatusOptions(df) :
          /\ v # selected_status
          /\ Main(cache, selected_priority, v, selected_network)

\* the user picks another "Red Prestacional"
SelectNetwork ==
    /\ SidebarShown
    /\ \E v \in NetworkOptions(df) :
          /\ v # selected_network
          /\ Main(cache, selected_priority, selected_status, v)

\* the user presses "Actualizar": if st.button(...): st.rerun()
Refresh ==
    /\ outcome # "not_run"
    /\ Main(CacheAfterRefresh(cache), selected_priority, selected_status,
            selected_network)

-----------------------------------------------------------------------------
(* data.txt *)

Unreadable == [readable |-> FALSE, lines |-> <<>>]

TextFile(ls) == [readable |-> TRUE, lines |-> ls]

\* one table row of data.txt
Row(p, m, n, s, st) ==
    <<"|">> \o p \o <<"|">> \o m \o <<"|">> \o n \o <<"|">> \o s \o <<"|">> \o st
        \o <<"|","d","s","|","p","i","|","c","o","|","r","n","|","\n">>

HeaderTitle == <<"|"," ","L","i","n","e","a"," ","|"," ","G","e","s","t","o","r"," ","|"," ","R","e","d"," ","|"," ","E","s","t","u","d","i","o"," ","|"," ","E","s","t","a","d","o"," ","|"," ","D","a","t","o","s"," ","|"," ","I","P"," ","|"," ","C","o"," ","|"," ","R","e","d"," ","N","a","c","i","o","n","a","l"," ","|","\n">>

HeaderRule == <<"|","-","-","-","|","-","-","-","|","-","-","-","|","-","-","-","|","-","-","-","|","-","-","-","|","-","-","-","|","-","-","-","|","-","-","-","|","\n">>

RowA == Row(<<" ","L","1"," ">>, <<"A","n","a">>, <<"R","1">>, <<"S","1">>, <<" ","E","n"," ","E","j","e","c","u","c","i","ó","n"," ">>)

RowB == Row(<<"L","2">>, <<"x","x","x","x","x"," ","(","r","e","s","e","r","v","a","d","o",")">>, <<"R","2">>, <<"S","2">>, <<"R","R","I"," ","1"," ","C","o","m","p","l","e","t","o">>)

RowC == Row(<<"L","1">>, <<"D","r","."," ","X","X","X","X","X">>, <<"R","2">>, <<"S","3">>, <<"V","a","l","i","d","a","c","i","o","n"," ","c","o","m","p","l","e","t","o">>)

RowD == Row(<<"L","2">>, <<>>, <<"R","1">>, <<"S","4">>, <<>>)

RowE == Row(<<"L","1">>, <<"A","n","a">>, <<"R","2">>, <<"S","5">>, <<"E","n"," ","E","j","e","c","u","c","i","ó","n">>)

SampleRows == {RowA, RowB, RowC, RowD, RowE}

\* sequences over S of length at most n
SeqsUpTo(S, n) == UNION {[1..k -> S] : k \in 0..n}

\* a data.txt as exported: title, rule, then the rows
DashFile(rows) == TextFile(<<HeaderTitle, HeaderRule>> \o rows)

DashFiles == {DashFile(rows) : rows \in SeqsUpTo(SampleRows, MaxRows)}

\* what an editor of data.txt leaves behind between two script runs
Rewrites == {Unreadable, DashFile(<<RowB, RowA>>)}

\* data.txt is replaced, removed or made unreadable
WriteFile ==
    /\ \E f \in Rewrites : f # file /\ file' = f
    /\ UNCHANGED <<cache, lines, selected_priority, selected_status,
                   selected_network, outcome, error_shown, df, filtered_df,
                   metrics, status_groups, kanban_columns, priority_counts,
                   status_counts, network_counts, manager_counts>>

\* lines of a data.txt that is not a clean export
NoDelimiterLine == <<"T","o","t","a","l",":"," ","2","\n">>

ShortLine == <<"|","L","1","|","A","n","a","|","R","1","|","S","1","|","e","|","\n">>

EmptyPriorityLine == <<"|"," ","|","A","n","a","|","R","1","|","S","1","|","e","|","d","s","|","p","i","|","c","o","|","r","n","|","\n">>

EmptyStudyLine == <<"|","L","1","|","A","n","a","|","R","1","|","|","e","|","d","s","|","p","i","|","c","o","|","r","n","|","\n">>

NineFieldLine == <<"|"," ","L","1"," ","|","A","n","a","|","R","1","|"," ","S","2"," ","|","E","n"," ","E","j","e","c","u","c","i","ó","n","|","d","s","|","p","i","|","c","o">>

ParseLines ==
    {NoDelimiterLine, ShortLine, HeaderRule, EmptyPriorityLine,
     EmptyStudyLine, NineFieldLine, RowA}

\* what the first two lines may be: a rule, or a line that would parse
HeaderChoices == {HeaderRule, RowA}

\* the example of the specification: five rows, the third with six fields
ExampleFile ==
    TextFile(<<HeaderTitle, HeaderRule, RowA, RowB, ShortLine, RowC, NineFieldLine>>)

\* files shorter than the header, and full headers followed by data lines
ParseFiles ==
    {TextFile(hs) : hs \in SeqsUpTo(HeaderChoices, HeaderLines - 1)}
    \cup {TextFile(hs \o ds) : hs \in [1..HeaderLines -> HeaderChoices],
                               ds \in SeqsUpTo(ParseLines, MaxDataLines)}
    \cup {ExampleFile}

-----------------------------------------------------------------------------
(* specifications *)

\* the server process has started; nobody has opened the page
Started ==
    /\ cache = NoCache
    /\ lines = <<>>
    /\ selected_priority = Todas
    /\ selected_status = Todos
    /\ selected_network = Todas
    /\ outcome = "not_run"
    /\ error_shown = FALSE
    /\ df = <<>>
    /\ filtered_df = <<>>
    /\ metrics = NoMetrics
    /\ status_groups = <<>>
    /\ kanban_columns = <<>>
    /\ priority_counts = <<>>
    /\ status_counts = <<>>
    /\ network_counts = <<>>
    /\ manager_counts = <<>>

Init == file \in DashFiles \cup {Unreadable} /\ Started

Next ==
    \/ Visit
    \/ SelectPriority
    \/ SelectStatus
    \/ SelectNetwork
    \/ Refresh
    \/ WriteFile

Spec == Init /\ [][Next]_vars

\* the dashboard: sessions over exported files that are edited meanwhile

\* the parser: load_data applied to every small file of ParseLines
InitParse == file \in ParseFiles /\ Started

NextParse ==
    \/ Visit
    \/ Refresh

SpecParse == InitParse /\ [][NextParse]_vars

-----------------------------------------------------------------------------
(* what the properties below are stated with *)

\* the j-th smallest element of a set of numbers
NthOf(S, j) == CHOOSE i \in S : Cardinality({x \in S : x < i}) = j - 1

\* the positions of the delimiter in a line
Bars(line) == {i \in 1..Len(line) : line[i] = "|"}

\* the text of field k of a line, trimmed: field 0 precedes the first
\* delimiter, field k lies between the k-th delimiter and the next (or the end)
FieldOf(line, k) ==
    LET b == Bars(line)
        lo == IF k = 0 THEN 0 ELSE NthOf(b, k)
        hi == IF Cardinality(b) > k THEN NthOf(b, k + 1) ELSE Len(line) + 1
    IN  IF Cardinality(b) < k THEN <<>> ELSE Strip(SubSeq(line, lo + 1, hi - 1))

\* the text begins with three dashes
IsRule(text) == Len(text) >= 3 /\ \A i \in 1..3 : text[i] = "-"

\* the row is retained: at least 9 fields, a priority line that is no rule,
\* and a study
RetainedLine(line) ==
    /\ Cardinality(Bars(line)) + 1 >= MinFields
    /\ FieldOf(line, 1) # <<>>
    /\ ~IsRule(FieldOf(line, 1))
    /\ FieldOf(line, 4) # <<>>

\* the positions of the retained rows of a file
RetainedAt(ls) == {i \in (HeaderLines + 1)..Len(ls) : RetainedLine(ls[i])}

\* the record of a retained row, its id left aside
SameFields(r, line) ==
    /\ r.priority_line = FieldOf(line, 1)
    /\ r.manager = FieldOf(line, 2)
    /\ r.network = FieldOf(line, 3)
    /\ r.study = FieldOf(line, 4)
    /\ r.status = FieldOf(line, 5)
    /\ r.data_support = FieldOf(line, 6)
    /\ r.principal_investigator = FieldOf(line, 7)
    /\ r.co_investigators = FieldOf(line, 8)
    /\ r.national_network = FieldOf(line, 9)

-----------------------------------------------------------------------------
(* C1 *)

\* C1: every record returned by load_data has a non-empty priority_line and
\* a non-empty study, and no priority_line begins with '---'.
C1_RetainedRecordsValid ==
    \A i \in 1..Len(cache.df) :
        /\ cache.df[i].priority_line # <<>>
        /\ cache.df[i].study # <<>>
        /\ ~IsRule(cache.df[i].priority_line)

\* load_data returned records from a file that holds, after the header, a
\* dash rule and a row without a study
C1_Witness ==
    /\ cache.hit
    /\ cache.df # <<>>
    /\ \E i, j \in (HeaderLines + 1)..Len(lines) :
          lines[i] = HeaderRule /\ lines[j] = EmptyStudyLine

-----------------------------------------------------------------------------
(* C2 *)

\* C2: the ids of the records returned by load_data are 1..n in order, n
\* being the number of retained rows: a dropped row consumes no id.
C2_IdsDense ==
    cache.hit =>
        /\ Len(cache.df) = Cardinality(RetainedAt(lines))
        /\ \A j \in 1..Len(cache.df) : cache.df[j].id = j

\* two records were returned with a dropped row between their rows
C2_Witness ==
    /\ cache.hit
    /\ Len(cache.df) >= 2
    /\ \E i, j, k \in (HeaderLines + 1)..Len(lines) :
          /\ i < j /\ j < k
          /\ RetainedLine(lines[i])
          /\ ~RetainedLine(lines[j])
          /\ RetainedLine(lines[k])

-----------------------------------------------------------------------------
(* C3 *)

\* C3: load_data makes no record of the first 2 lines, skips without an error
\* every later line without '|' or with fewer than 9 fields, and returns the
\* remaining well-formed rows, all of them, in file order.
C3_WellFormedRowsInOrder ==
    cache.hit =>
        /\ ~cache.error
        /\ Len(cache.df) = Cardinality(RetainedAt(lines))
        /\ \A j \in 1..Len(cache.df) :
              SameFields(cache.df[j], lines[NthOf(RetainedAt(lines), j)])

\* the example: five rows after the header, the third with six fields, gave
\* four records with the ids 1 to 4
C3_Witness ==
    /\ cache.hit
    /\ lines = ExampleFile.lines
    /\ ~RetainedLine(lines[HeaderLines + 3])
    /\ [j \in 1..Len(cache.df) |-> cache.df[j].id] = <<1, 2, 3, 4>>
    /\ cache.df[3].study = <<"S","3">>

-----------------------------------------------------------------------------
(* C4 *)

\* C4: every record of the view passed to create_metrics is counted in
\* exactly one of Active, Completed, Other: no status is counted both among
\* the active and among the completed projects, and active + completed never
\* exceeds the total.
C4_ExactlyOneBucket ==
    outcome = "rendered" =>
        /\ \A i \in 1..Len(filtered_df) :
              ~(IsActive(filtered_df[i].status) /\ IsCompleted(filtered_df[i].status))
        /\ metrics.active + metrics.completed <= metrics.total

-----------------------------------------------------------------------------
(* C5 *)

\* C5: create_metrics never fails with a division by zero: over an empty
\* record set it reports a defined value.
C5_NoDivisionByZero == outcome # "ZeroDivisionError"

-----------------------------------------------------------------------------
(* C6 *)

\* C6: the run that follows a refresh uses the parse of data.txt as it is at
\* that refresh, also after a load that failed; a run without a refresh
\* reuses the cached base set.
C6_RefreshReloads ==
    [][/\ Refresh => df' = ReadAndParse(file).df
       /\ (SelectPriority \/ SelectStatus \/ SelectNetwork) => df' = df]_vars

-----------------------------------------------------------------------------
(* C7 *)

\* the record meets every selection that is not the sentinel
Selected(r) ==
    /\ selected_priority # Todas => r.priority_line = selected_priority
    /\ selected_status # Todos => r.status = selected_status
    /\ selected_network # Todas => r.network = selected_network

\* C7: the filtered view is the subsequence, in base order, of the records
\* that equal the selected value on every field whose selection is not the
\* sentinel; with three sentinels it is the base set; the base set is left
\* as it was loaded.
C7_ViewIsSelectedSubsequence ==
    SidebarShown =>
        LET kept == {i \in 1..Len(df) : Selected(df[i])}
        IN  /\ Len(filtered_df) = Cardinality(kept)
            /\ \A j \in 1..Len(filtered_df) : filtered_df[j] = df[NthOf(kept, j)]
            /\ (selected_priority = Todas /\ selected_status = Todos
                   /\ selected_network = Todas) => filtered_df = df
            /\ df = cache.df

\* three selections are active and keep some records of the base set, not all
C7_Witness ==
    /\ outcome = "rendered"
    /\ selected_priority # Todas
    /\ selected_status # Todos
    /\ selected_network # Todas
    /\ Len(filtered_df) < Len(df)
    /\ \E i \in 1..Len(df) :
          /\ df[i].priority_line = selected_priority
          /\ df[i].status = selected_status
          /\ df[i].network # selected_network

-----------------------------------------------------------------------------
(* C8 *)

\* the number of status groups that hold the record
GroupsHolding(r) ==
    Cardinality({k \in DOMAIN status_groups :
                    \E i \in 1..Len(status_groups[k]) : status_groups[k][i] = r})

RECURSIVE SumOfSizes(_, _)
SumOfSizes(groups, keys) ==
    IF keys = {} THEN 0
    ELSE LET k == CHOOSE x \in keys : TRUE
         IN  Len(groups[k]) + SumOfSizes(groups, keys \ {k})

\* C8: each record of the view is in exactly one status group, the group of
\* its exact status; no group is empty; the group sizes sum to the size of
\* the view; every group key has a colour.
C8_GroupsPartitionView ==
    outcome = "rendered" =>
        /\ \A i \in 1..Len(filtered_df) :
              /\ GroupsHolding(filtered_df[i]) = 1
              /\ filtered_df[i].status \in DOMAIN status_groups
              /\ \E j \in 1..Len(status_groups[filtered_df[i].status]) :
                    status_groups[filtered_df[i].status][j] = filtered_df[i]
        /\ \A k \in DOMAIN status_groups : status_groups[k] # <<>>
        /\ SumOfSizes(status_groups, DOMAIN status_groups) = Len(filtered_df)
        /\ DOMAIN status_groups \subseteq DOMAIN kanban_columns

\* the board groups a view that holds a record without status beside a
\* record with one
C8_Witness ==
    /\ outcome = "rendered"
    /\ Cardinality(DOMAIN status_groups) >= 2
    /\ <<>> \in DOMAIN status_groups

-----------------------------------------------------------------------------
(* C9 *)

\* the manager holds the placeholder xxxxx in some letter case
Redacted(manager) ==
    \E i \in 1..(Len(manager) - 4) : \A k \in 0..4 : manager[i + k] \in {"x", "X"}

\* the records of the view with a manager that is neither empty nor redacted
ValidRecords(view) ==
    {i \in 1..Len(view) : view[i].manager # <<>> /\ ~Redacted(view[i].manager)}

RECURSIVE SumOfCounts(_)
SumOfCounts(vc) ==
    IF vc = <<>> THEN 0 ELSE vc[1].count + SumOfCounts(Tail(vc))

\* C9: the manager counts sum to the number of valid records of the view,
\* and no key is empty or holds the placeholder.
C9_ManagerCountsSumToValid ==
    outcome = "rendered" =>
        /\ SumOfCounts(manager_counts) = Cardinality(ValidRecords(filtered_df))
        /\ \A i \in 1..Len(manager_counts) :
              /\ manager_counts[i].value # <<>>
              /\ ~Redacted(manager_counts[i].value)

\* the chart counts a view that holds a named manager beside the manager
\* 'xxxxx (reservado)'
C9_Witness ==
    /\ outcome = "rendered"
    /\ manager_counts # <<>>
    /\ \E i \in 1..Len(filtered_df) : filtered_df[i].manager = <<"x","x","x","x","x"," ","(","r","e","s","e","r","v","a","d","o",")">>

-----------------------------------------------------------------------------
(* C10 *)

\* where a value first appears in a column
FirstIndex(col, v) == CHOOSE i \in 1..Len(col) : col[i] = v /\ \A j \in 1..(i - 1) : col[j] # v

\* vc holds each distinct value of col once, with its number of occurrences,
\* by descending count, equal counts by first appearance
OrderedCounts(vc, col) ==
    /\ {vc[i].value : i \in 1..Len(vc)} = {col[i] : i \in 1..Len(col)}
    /\ \A i \in 1..Len(vc) :
          vc[i].count = Cardinality({k \in 1..Len(col) : col[k] = vc[i].value})
    /\ \A i, j \in 1..Len(vc) :
          i < j =>
            \/ vc[i].count > vc[j].count
            \/ /\ vc[i].count = vc[j].count
               /\ FirstIndex(col, vc[i].value) < FirstIndex(col, vc[j].value)

-----------------------------------------------------------------------------
(* C11 *)

\* load_data's body runs in this step (nothing was cached) and data.txt
\* cannot be read
LoadFails == ~cache.hit /\ cache'.hit /\ ~file.readable

\* C11: when data.txt cannot be read, load_data returns the empty record set
\* and shows an error instead of raising; main then ends with its notice,
\* having computed no filter, metric, kanban group or chart.
C11_FailedLoadDegrades ==
    [][LoadFails =>
          /\ cache'.df = <<>>
          /\ cache'.error
          /\ error_shown'
          /\ df' = <<>>
          /\ outcome' = "no_data"
          /\ filtered_df' = <<>>
          /\ metrics' = NoMetrics
          /\ status_groups' = <<>>
          /\ kanban_columns' = <<>>
          /\ priority_counts' = <<>>
          /\ status_counts' = <<>>
          /\ network_counts' = <<>>
          /\ manager_counts' = <<>>]_vars

\* a script run has loaded an unreadable data.txt and ended with the notice
C11_Witness ==
    /\ cache.hit
    /\ cache.error
    /\ error_shown
    /\ ~file.readable
    /\ outcome = "no_data"

====
